---- MODULE Spec2Model ----
(***************************************************************************)
(* Model of streamlit_app.py: the inventory loader (charger_inventaire),   *)
(* the pairwise comparator (comparer_deux_agences) and the script body     *)
(* that collects the agencies and generates one workbook per agency.       *)
(*                                                                         *)
(* Text is modelled by TLA+ strings, one character per position.  Three    *)
(* characters of the source that are not ASCII are written with ASCII      *)
(* stand-ins, so that every string of the model has one character per      *)
(* position whatever the encoding of this file:                            *)
(*     "&"  is  e-acute (lower case),   "%"  is  E-acute (upper case),     *)
(*     "~"  is  the no-break space "\xa0".                                 *)
(* A missing value (pandas NaN) is NaN in a numeric column and NoValue in   *)
(* a column of text (TLC compares text with text only).                    *)
(***************************************************************************)
EXTENDS Integers, Sequences, FiniteSets, TLC

\* the missing value of a numeric column
NaN == <<>>

\* the missing value of a text column; no text of the model is this string
NoValue == "<NaN>"

Min(a, b) == IF a < b THEN a ELSE b

Max(a, b) == IF a < b THEN b ELSE a

(* ------------------------------ text -------------------------------- *)

CharAt(s, i) == SubSeq(s, i, i)

UpperChars == "ABCDEFGHIJKLMNOPQRSTUVWXYZ%"

LowerChars == "abcdefghijklmnopqrstuvwxyz&"

UpperSet == {CharAt(UpperChars, i) : i \in 1..Len(UpperChars)}

LowerOf ==
    [c \in UpperSet |->
        CharAt(LowerChars, CHOOSE i \in 1..Len(UpperChars) : CharAt(UpperChars, i) = c)]

\* str.lower() on one character
LowerChar(c) == IF c \in UpperSet THEN LowerOf[c] ELSE c

RECURSIVE StrLower(_)
\* str.lower()
StrLower(s) ==
    IF s = "" THEN ""
    ELSE LowerChar(CharAt(s, 1)) \o StrLower(SubSeq(s, 2, Len(s)))

RECURSIVE StrReplace(_, _, _)
\* str.replace(old, new) for a one-character old
StrReplace(s, old, new) ==
    IF s = "" THEN ""
    ELSE (IF CharAt(s, 1) = old THEN new ELSE CharAt(s, 1))
         \o StrReplace(SubSeq(s, 2, Len(s)), old, new)

\* the characters str.strip() removes (the no-break space is whitespace too)
IsSpace(c) == c \in {" ", "~"}

\* str.strip()
StrStrip(s) ==
    LET keep == {i \in 1..Len(s) : ~IsSpace(CharAt(s, i))}
    IN  IF keep = {} THEN ""
        ELSE LET lo == CHOOSE i \in keep : \A j \in keep : i <= j
                 hi == CHOOSE i \in keep : \A j \in keep : i >= j
             IN  SubSeq(s, lo, hi)

\* sub in s
StrContains(s, sub) ==
    \E i \in 1..(Len(s) - Len(sub) + 1) : SubSeq(s, i, i + Len(sub) - 1) = sub

\* s.startswith(p)
StrStartsWith(s, p) == Len(s) >= Len(p) /\ SubSeq(s, 1, Len(p)) = p

(* ----------------------------- numbers ------------------------------ *)
(* A number is a decimal <<n, k>>, standing for n / 10^k, with k the least *)
(* exponent that represents it (binary rounding of floats is not modelled). *)

RECURSIVE Pow10(_)
Pow10(k) == IF k = 0 THEN 1 ELSE 10 * Pow10(k - 1)

RECURSIVE Normalize(_)
Normalize(x) ==
    IF x[2] > 0 /\ x[1] % 10 = 0 THEN Normalize(<<x[1] \div 10, x[2] - 1>>) ELSE x

Num(n) == <<n, 0>>

IsNaN(v) == v = NaN

\* a + b on two columns' cells: NaN when either is NaN
NumAdd(a, b) ==
    IF IsNaN(a) \/ IsNaN(b) THEN NaN
    ELSE LET k == Max(a[2], b[2])
         IN  Normalize(<<a[1] * Pow10(k - a[2]) + b[1] * Pow10(k - b[2]), k>>)

\* a - b on two columns' cells: NaN when either is NaN
NumSub(a, b) ==
    IF IsNaN(a) \/ IsNaN(b) THEN NaN
    ELSE LET k == Max(a[2], b[2])
         IN  Normalize(<<a[1] * Pow10(k - a[2]) - b[1] * Pow10(k - b[2]), k>>)

\* Series.abs()
NumAbs(a) == IF IsNaN(a) THEN NaN ELSE <<IF a[1] < 0 THEN -a[1] ELSE a[1], a[2]>>

\* a < b for two numbers that are not NaN
NumLess(a, b) ==
    LET k == Max(a[2], b[2])
    IN  a[1] * Pow10(k - a[2]) < b[1] * Pow10(k - b[2])

Digits == "0123456789"

IsDigit(c) == \E i \in 1..10 : CharAt(Digits, i) = c

DigitVal(c) == (CHOOSE i \in 1..10 : CharAt(Digits, i) = c) - 1

AllDigits(s) == \A i \in 1..Len(s) : IsDigit(CharAt(s, i))

RECURSIVE DigitsVal(_)
DigitsVal(s) ==
    IF s = "" THEN 0
    ELSE 10 * DigitsVal(SubSeq(s, 1, Len(s) - 1)) + DigitVal(CharAt(s, Len(s)))

\* pd.to_numeric(errors="coerce") on one text cell: an optionally signed decimal
\* numeral parses to its value, anything else (also "nan") becomes NaN.
\* (Exponents and "inf" are not modelled.)
ToNumeric(s) ==
    LET signed == s # "" /\ CharAt(s, 1) \in {"-", "+"}
        neg    == s # "" /\ CharAt(s, 1) = "-"
        body   == IF signed THEN SubSeq(s, 2, Len(s)) ELSE s
        dots   == {i \in 1..Len(body) : CharAt(body, i) = "."}
        p      == IF dots = {} THEN Len(body) + 1 ELSE CHOOSE i \in dots : TRUE
        ip     == SubSeq(body, 1, p - 1)
        fp     == SubSeq(body, p + 1, Len(body))
        ok     == /\ Cardinality(dots) <= 1
                  /\ AllDigits(ip) /\ AllDigits(fp)
                  /\ Len(ip) + Len(fp) > 0
        mag    == DigitsVal(ip) * Pow10(Len(fp)) + DigitsVal(fp)
    IN  IF ok THEN Normalize(<<IF neg THEN -mag ELSE mag, Len(fp)>>) ELSE NaN

\* .astype(str) on one cell
AsStr(v) == IF v = NoValue THEN "nan" ELSE v

\* lines 102-109: text, NBSP and spaces removed, comma to dot, then to_numeric
ConvertNumeric(v) ==
    ToNumeric(StrReplace(StrReplace(StrReplace(AsStr(v), "~", ""), " ", ""), ",", "."))

(* ------------------------ charger_inventaire ------------------------- *)
(* An uploaded file is [name, readable, columns, rows]: the header labels   *)
(* and the data rows (one cell per column; a cell is text or NoValue) that     *)
(* read_csv / read_excel return, or readable = FALSE when they raise.       *)

required_logical_cols ==
    <<"Code article", "D&signation", "Stock th&orique", "Stock physique", "Ecart">>

SeqMap1(s, old, new) == [i \in 1..Len(s) |-> StrStrip(StrReplace(s[i], old, new))]

\* line 49: NBSP replaced by a space, then strip, on every label
CleanColumns(columns) == SeqMap1(columns, "~", " ")

\* line 63
ColClean(col) == StrReplace(StrLower(col), "~", " ")

\* a variant of the test of line 72: "ecart" anywhere in the header
IsEcartHeaderAnywhere(col_clean) == StrContains(col_clean, "ecart")

\* line 72: the test of the discrepancy column
IsEcartHeader(col_clean) == StrStartsWith(col_clean, "ecart")

\* lines 64-72: the test each branch of the chain makes on col_clean
FieldMatches(f, col_clean) ==
    CASE f = "Code article"    -> StrContains(col_clean, "code article")
      [] f = "D&signation"     -> StrContains(col_clean, "d&signation")
      [] f = "Stock th&orique" -> StrContains(col_clean, "stock th&orique")
      [] f = "Stock physique"  -> StrContains(col_clean, "stock physique")
      [] f = "Ecart"           -> IsEcartHeader(col_clean)

\* a variant of the loop's turn without the "not in col_map" tests: the last
\* matching header wins
ColMapStepLastWins(cmap, col) ==
    LET col_clean == ColClean(col)
        f == CHOOSE g \in {required_logical_cols[i] : i \in 1..5} :
                 /\ FieldMatches(g, col_clean)
                 /\ \A i, j \in 1..5 :
                        (required_logical_cols[i] = g /\ j < i)
                            => ~FieldMatches(required_logical_cols[j], col_clean)
    IN  IF \E g \in {required_logical_cols[i] : i \in 1..5} : FieldMatches(g, col_clean)
        THEN (f :> col) @@ cmap
        ELSE cmap

\* lines 64-73: one turn of the loop over df.columns (col_map is a function
\* from the logical fields found so far to the label kept for each); the
\* if / elif chain tests the fields in the order of required_logical_cols
ColMapStep(cmap, col) ==
    LET col_clean == ColClean(col)
        takes(f) == FieldMatches(f, col_clean) /\ f \notin DOMAIN cmap
    IN  IF      takes("Code article")    THEN cmap @@ ("Code article" :> col)
        ELSE IF takes("D&signation")     THEN cmap @@ ("D&signation" :> col)
        ELSE IF takes("Stock th&orique") THEN cmap @@ ("Stock th&orique" :> col)
        ELSE IF takes("Stock physique")  THEN cmap @@ ("Stock physique" :> col)
        ELSE IF takes("Ecart")           THEN cmap @@ ("Ecart" :> col)
        ELSE cmap

RECURSIVE ResolveFrom(_, _, _)
\* lines 61-73: the loop, from column i on
ResolveFrom(cols, i, cmap) ==
    IF i > Len(cols) THEN cmap
    ELSE ResolveFrom(cols, i + 1, ColMapStep(cmap, cols[i]))

EmptyMap == [f \in {} |-> ""]

ResolveColumns(cols) == ResolveFrom(cols, 1, EmptyMap)

\* line 75
MissingCols(cmap) ==
    SelectSeq(required_logical_cols, LAMBDA c : c \notin DOMAIN cmap)

RECURSIVE PositionsFrom(_, _, _)
PositionsFrom(cols, label, i) ==
    IF i > Len(cols) THEN <<>>
    ELSE (IF cols[i] = label THEN <<i>> ELSE <<>>) \o PositionsFrom(cols, label, i + 1)

\* lines 82-90: df[[labels]] keeps, for each label asked, every column that
\* bears it (two labels may have become equal at line 49)
SelectPositions(cols, cmap) ==
    PositionsFrom(cols, cmap["Code article"], 1)
    \o PositionsFrom(cols, cmap["D&signation"], 1)
    \o PositionsFrom(cols, cmap["Stock th&orique"], 1)
    \o PositionsFrom(cols, cmap["Stock physique"], 1)
    \o PositionsFrom(cols, cmap["Ecart"], 1)

\* lines 92-109: one projected row under the canonical names, numbers converted
CanonRow(cells, pos) ==
    [c \in {required_logical_cols[i] : i \in 1..5} |->
        LET i == CHOOSE j \in 1..5 : required_logical_cols[j] = c
        IN  IF i <= 2 THEN cells[pos[i]] ELSE ConvertNumeric(cells[pos[i]])]

\* line 112: dropna(subset=["Code article"])
KeepRow(row) == row["Code article"] # NoValue

\* line 113
StripCode(row) == [row EXCEPT !["Code article"] = StrStrip(AsStr(row["Code article"]))]

SeqMapRows(rows, pos) == [i \in 1..Len(rows) |-> CanonRow(rows[i], pos)]

StripCodes(rows) == [i \in 1..Len(rows) |-> StripCode(rows[i])]

\* the locals of one call when it returns or raises: col_map as it stands at
\* line 75 and the outcome, a DataFrame [ok |-> TRUE, columns, rows] or the
\* exception raised [ok |-> FALSE, error, missing, found]
charger_locals(file) ==
    IF ~file.readable
    THEN [col_map |-> EmptyMap,
          out |-> [ok |-> FALSE, error |-> "UnparsableSource",
                   missing |-> <<>>, found |-> <<>>]]
    ELSE LET cols    == CleanColumns(file.columns)
             cmap    == ResolveColumns(cols)
             missing == MissingCols(cmap)
             pos     == SelectPositions(cols, cmap)
         IN  [col_map |-> cmap,
              out |->
                IF missing # <<>>
                THEN [ok |-> FALSE, error |-> "ValueError",
                      missing |-> missing, found |-> cols]
                ELSE IF Len(pos) # 5
                THEN [ok |-> FALSE, error |-> "LengthMismatch",
                      missing |-> <<>>, found |-> cols]
                ELSE [ok |-> TRUE,
                      columns |-> required_logical_cols,
                      rows |-> StripCodes(SelectSeq(
                                  SeqMapRows(file.rows, pos), KeepRow))]]

\* what the call returns or raises
charger_inventaire(file) == charger_locals(file).out

(* ----------------------- comparer_deux_agences ------------------------ *)
(* A DataFrame is [ok |-> TRUE, columns, rows]: the column names in order   *)
(* and the rows, each a function from the column names to the cells.        *)

ColSet(df) == {df.columns[i] : i \in 1..Len(df.columns)}

\* DataFrame.rename(columns={old: new}): a new frame
RenameColumn(df, old, new) ==
    [ok |-> TRUE,
     columns |-> [i \in 1..Len(df.columns) |->
                    IF df.columns[i] = old THEN new ELSE df.columns[i]],
     rows |-> [r \in 1..Len(df.rows) |->
                 IF old \in DOMAIN df.rows[r]
                 THEN [c \in (DOMAIN df.rows[r] \ {old}) \cup {new} |->
                          IF c = new THEN df.rows[r][old] ELSE df.rows[r][c]]
                 ELSE df.rows[r]]]

\* line 143: b[["Code article", ecart_b]]
TwoColumns(b, ecart_b) ==
    [ok |-> TRUE,
     columns |-> <<"Code article", ecart_b>>,
     rows |-> [r \in 1..Len(b.rows) |->
                 [c \in {"Code article", ecart_b} |-> b.rows[r][c]]]]

\* merge gives "_x" / "_y" to a column name that both sides bear (the key aside)
Overlap(a, b2) == (ColSet(a) \cap ColSet(b2)) \ {"Code article"}

LeftName(c, over) == IF c \in over THEN c \o "_x" ELSE c

RightName(c, over) == IF c \in over THEN c \o "_y" ELSE c

\* one row of the join: the left row's cells, then the right row's other cells
MergedRow(ra, rb, over) ==
    [c \in {LeftName(x, over) : x \in DOMAIN ra}
           \cup {RightName(x, over) : x \in DOMAIN rb \ {"Code article"}} |->
        IF \E x \in DOMAIN ra : LeftName(x, over) = c
        THEN ra[CHOOSE x \in DOMAIN ra : LeftName(x, over) = c]
        ELSE rb[CHOOSE x \in DOMAIN rb \ {"Code article"} : RightName(x, over) = c]]

RECURSIVE MergeRowsFirstMatch(_, _, _, _, _)
\* a variant of the join that keeps, for a left row, its first match only
MergeRowsFirstMatch(ra, rb, i, j, over) ==
    IF i > Len(ra) THEN <<>>
    ELSE IF j > Len(rb) THEN MergeRowsFirstMatch(ra, rb, i + 1, 1, over)
    ELSE IF ra[i]["Code article"] = rb[j]["Code article"]
         THEN <<MergedRow(ra[i], rb[j], over)>> \o MergeRowsFirstMatch(ra, rb, i + 1, 1, over)
         ELSE MergeRowsFirstMatch(ra, rb, i, j + 1, over)

RECURSIVE MergeRows(_, _, _, _, _)
\* lines 142-146: the inner join on "Code article", in the order of the left
\* rows, the matches of one left row in the order of the right rows
MergeRows(ra, rb, i, j, over) ==
    IF i > Len(ra) THEN <<>>
    ELSE IF j > Len(rb) THEN MergeRows(ra, rb, i + 1, 1, over)
    ELSE (IF ra[i]["Code article"] = rb[j]["Code article"]
          THEN <<MergedRow(ra[i], rb[j], over)>> ELSE <<>>)
         \o MergeRows(ra, rb, i, j + 1, over)

Merge(a, b2) ==
    LET over == Overlap(a, b2)
    IN  [ok |-> TRUE,
         columns |-> [i \in 1..Len(a.columns) |-> LeftName(a.columns[i], over)]
                     \o SelectSeq([i \in 1..Len(b2.columns) |->
                                      RightName(b2.columns[i], over)],
                                  LAMBDA c : c # "Code article"),
         rows |-> MergeRows(a.rows, b2.rows, 1, 1, over)]

\* res[name] = val on one row: a new column, or the old one overwritten
SetCell(row, name, val) ==
    IF name \in DOMAIN row THEN [row EXCEPT ![name] = val] ELSE row @@ (name :> val)

\* the column list after res[name] = ...
SetColumn(columns, name) ==
    IF \E i \in 1..Len(columns) : columns[i] = name THEN columns ELSE Append(columns, name)

\* line 162, on one row
EcartDes2(row, ecart_a, ecart_b) == NumSub(row[ecart_b], row[ecart_a])

\* line 163, on one row
SommeEcarts(row, ecart_a, ecart_b) == NumAdd(row[ecart_a], row[ecart_b])

\* lines 148-163 on one row of the join: the dict of line 149 in key order,
\* then the two assignments
ResultRow(m, na, nb, ecart_a, ecart_b) ==
    LET r0 == ("Agence" :> na) @@ ("Agence compar&e" :> nb)
              @@ ("Code article" :> m["Code article"])
              @@ ("D&signation" :> m["D&signation"])
              @@ ("Stock th&orique" :> m["Stock th&orique"])
              @@ ("Stock physique" :> m["Stock physique"])
        r1 == SetCell(SetCell(r0, ecart_a, m[ecart_a]), ecart_b, m[ecart_b])
        r2 == SetCell(r1, "Ecart_des_2_agences", EcartDes2(r1, ecart_a, ecart_b))
    IN  SetCell(r2, "Somme_ecarts", SommeEcarts(r2, ecart_a, ecart_b))

ResultColumns(ecart_a, ecart_b) ==
    SetColumn(SetColumn(SetColumn(SetColumn(
        <<"Agence", "Agence compar&e", "Code article", "D&signation",
          "Stock th&orique", "Stock physique">>,
        ecart_a), ecart_b), "Ecart_des_2_agences"), "Somme_ecarts")

\* line 166: the sort key of a row
SortKey(row) == NumAbs(row["Somme_ecarts"])

\* a variant of line 166 with ascending=True
ComesFirstAscending(x, y) == NumLess(SortKey(x), SortKey(y))

\* line 166, ascending=False: row x must come before row y
ComesFirst(x, y) == NumLess(SortKey(y), SortKey(x))

RECURSIVE DescOrders(_, _)
\* the orders of the rows at positions S that put no row after one it must
\* precede.  sort_values is called without kind=, so with the default
\* "quicksort", which is not a stable sort: the order of rows of equal key is
\* whatever the library's quicksort leaves
DescOrders(S, rows) ==
    IF S = {} THEN {<<>>}
    ELSE LET tops == {i \in S : \A j \in S : ~ComesFirst(rows[j], rows[i])}
         IN  UNION {{<<i>> \o q : q \in DescOrders(S \ {i}, rows)} : i \in tops}

\* line 166: the orders sort_values may return; na_position is "last", and
\* the rows of NaN key keep their order
SortOrders(rows) ==
    LET keyed == {i \in 1..Len(rows) : ~IsNaN(SortKey(rows[i]))}
        nans  == SelectSeq([i \in 1..Len(rows) |-> i], LAMBDA i : i \notin keyed)
    IN  {q \o nans : q \in DescOrders(keyed, rows)}

KeyError == [ok |-> FALSE, error |-> "KeyError"]

\* a variant of lines 136-139 that renames the argument frames in place
ArgsAfterInPlace(na, dfa, nb, dfb) ==
    <<RenameColumn(dfa, "Ecart", "Ecart_" \o na), RenameColumn(dfb, "Ecart", "Ecart_" \o nb)>>

\* lines 136-139: the argument frames when the call is over.  The function
\* works on copies and rename() returns a new frame, so they are as they were
ArgsAfter(na, dfa, nb, dfb) == <<dfa, dfb>>

\* lines 136-163: res before the sort of line 166, or the KeyError raised on
\* a column that is not there
ResultBeforeSort(na, dfa, nb, dfb) ==
    LET ecart_a == "Ecart_" \o na
        ecart_b == "Ecart_" \o nb
        a == RenameColumn(dfa, "Ecart", ecart_a)
        b == RenameColumn(dfb, "Ecart", ecart_b)
    IN  IF ~({"Code article", ecart_b} \subseteq ColSet(b)) \/ "Code article" \notin ColSet(a)
        THEN KeyError
        ELSE LET merged == Merge(a, TwoColumns(b, ecart_b))
                 needed == {"Code article", "D&signation", "Stock th&orique",
                            "Stock physique", ecart_a, ecart_b}
             IN  IF ~(needed \subseteq ColSet(merged))
                 THEN KeyError
                 ELSE [ok |-> TRUE,
                       columns |-> ResultColumns(ecart_a, ecart_b),
                       rows |-> [r \in 1..Len(merged.rows) |->
                                   ResultRow(merged.rows[r], na, nb, ecart_a, ecart_b)]]

\* lines 136-168: the frames the call may return (one per order the sort may
\* leave), or the exception it raises
comparer_deux_agences(na, dfa, nb, dfb) ==
    LET unsorted == ResultBeforeSort(na, dfa, nb, dfb)
    IN  IF ~unsorted.ok THEN {unsorted}
        ELSE {[unsorted EXCEPT !.rows = [k \in 1..Len(q) |-> unsorted.rows[q[k]]]] :
                 q \in SortOrders(unsorted.rows)}

(* ------------------------------ state -------------------------------- *)

VARIABLES
    uploaded_file,   \* charger_inventaire: the file of the call
    col_map,         \* charger_inventaire: col_map at line 75
    df_inv,          \* charger_inventaire: what the call returned or raised
    nom_a, df_a, nom_b, df_b,   \* comparer_deux_agences: the arguments
    res,             \* comparer_deux_agences: what the call returned or raised
    nb_agences,      \* st.session_state.nb_agences
    widgets,         \* per slot seen so far: the name typed and the file uploaded
    agence_infos,    \* the list of (nom_agence, df_inventaire)
    errors,          \* the st.error messages shown
    button,          \* the button whose click started the script run
    pc,              \* where the script run is
    i_slot,          \* the loop index i of line 177 (0-based)
    idx_ref, idx_other,   \* the two loop indices of the generation (0-based)
    sheets,          \* the sheets of the workbook being written
    downloads        \* the download buttons made: (file_name, sheets)

loaderVars == <<uploaded_file, col_map, df_inv>>

cmpVars == <<nom_a, df_a, nom_b, df_b, res>>

appVars == <<nb_agences, widgets, agence_infos, errors, button, pc, i_slot, idx_ref, idx_other,
             sheets, downloads>>

vars == <<loaderVars, cmpVars, appVars>>

Pending == [ok |-> FALSE, error |-> "pending"]

NoFile == [readable |-> FALSE, columns |-> <<>>, rows |-> <<>>]

EmptyDf == [ok |-> TRUE, columns |-> required_logical_cols, rows |-> <<>>]

LoaderIdle ==
    /\ uploaded_file = NoFile
    /\ col_map = EmptyMap
    /\ df_inv = Pending

CmpIdle ==
    /\ nom_a = "" /\ nom_b = ""
    /\ df_a = EmptyDf /\ df_b = EmptyDf
    /\ res = Pending

AppIdle ==
    /\ nb_agences = 2
    /\ widgets = <<>>
    /\ agence_infos = <<>>
    /\ errors = <<>>
    /\ button = "none"
    /\ pc = "idle"
    /\ i_slot = 0
    /\ idx_ref = 0 /\ idx_other = 0
    /\ sheets = <<>>
    /\ downloads = <<>>

(* ------------------- one call of charger_inventaire ------------------- *)

\* lines 33-115
CallCharger ==
    /\ df_inv = Pending
    /\ LET locals == charger_locals(uploaded_file)
       IN  /\ df_inv' = locals.out
           /\ col_map' = locals.col_map
    /\ UNCHANGED <<uploaded_file, cmpVars, appVars>>

RECURSIVE InjSeqs(_, _)
\* the sequences of at most n distinct elements of S
InjSeqs(S, n) ==
    IF n = 0 THEN {<<>>}
    ELSE LET shorter == InjSeqs(S, n - 1)
         IN  shorter \cup {Append(q, x) : <<q, x>> \in
                            {qx \in shorter \X S :
                                /\ Len(qx[1]) = n - 1
                                /\ \A i \in 1..Len(qx[1]) : qx[1][i] # qx[2]}}

RECURSIVE SeqsUpTo(_, _)
\* the sequences of at most n elements of S
SeqsUpTo(S, n) ==
    IF n = 0 THEN {<<>>}
    ELSE LET shorter == SeqsUpTo(S, n - 1)
         IN  shorter \cup {Append(q, x) : <<q, x>> \in
                            {qx \in shorter \X S : Len(qx[1]) = n - 1}}

MaxCols == 6

\* header labels as read_csv / read_excel return them (always distinct): the
\* five expected ones with variations of case and spacing, one that matches
\* two fields, one that becomes equal to another at line 49, one that matches none
HeaderPool ==
    {"Code article", " D&signation~", "STOCK TH&ORIQUE", "Stock physique", "Ecart",
     "Ecart stock physique", "Ecart~", "Total ecart"}

HeaderFile(hs) ==
    [readable |-> TRUE, columns |-> hs, rows |-> <<[i \in 1..Len(hs) |-> "7"]>>]

InitCols ==
    /\ uploaded_file \in {HeaderFile(hs) : hs \in InjSeqs(HeaderPool, MaxCols)}
    /\ col_map = EmptyMap
    /\ df_inv = Pending
    /\ CmpIdle /\ AppIdle

\* every call of charger_inventaire on a file whose headers are drawn from HeaderPool
SpecCols == InitCols /\ [][CallCharger]_vars

\* spellings of the discrepancy header: what precedes it, the case and the
\* accent of its letters, a no-break space inside it, what follows it
EcartSpellings ==
    {pre \o e \o c \o mid \o a \o r \o t \o post :
        <<pre, e, c, mid, a, r, t, post>> \in
            {"", " ", "~", "total "} \X {"e", "E", "&", "%"} \X {"c", "C"} \X {"", "~"}
            \X {"a", "A"} \X {"r", "R"} \X {"t", "T"} \X {"", " stock", "~"}}

InitEcart ==
    /\ uploaded_file \in
         {HeaderFile(<<"Code article", "D&signation", "Stock th&orique",
                       "Stock physique", h>>) : h \in EcartSpellings}
    /\ col_map = EmptyMap
    /\ df_inv = Pending
    /\ CmpIdle /\ AppIdle

\* every call of charger_inventaire on a file whose fifth header is a spelling of "ecart"
SpecEcart == InitEcart /\ [][CallCharger]_vars

MaxRows == 3

\* the header of the files of SpecParse: a column the loader drops, then the five
ParseHeader ==
    <<"Emplacement", "Code article", "D&signation", "Stock th&orique",
      "Stock physique", "Ecart">>

\* data rows as read from a file: codes with and without spaces around them,
\* a missing code, a code of spaces only, a code met twice, numbers written
\* with spaces, no-break spaces and commas, cells that are no number
RawRowPool ==
    {<<"R1", "A1", "Vis", "10", "7", "-3">>,
     <<"R2", " B2~", "Clou", "1~234,56", "1 234,5", "-0,06">>,
     <<"R3", NoValue, "Sans code", "1", "1", "0">>,
     <<"R4", "  ", "Code blanc", "2", "3", "1">>,
     <<"R5", "C3", NoValue, "abc", NoValue, "">>,
     <<"R6", "A1", "Vis bis", "4", "4", "0">>}

InitParse ==
    /\ uploaded_file \in
         {[readable |-> TRUE, columns |-> ParseHeader, rows |-> rows] :
             rows \in SeqsUpTo(RawRowPool, MaxRows)} \cup {NoFile}
    /\ col_map = EmptyMap
    /\ df_inv = Pending
    /\ CmpIdle /\ AppIdle

\* every call of charger_inventaire on a file of at most MaxRows rows of RawRowPool
SpecParse == InitParse /\ [][CallCharger]_vars

(* ------------------ one call of comparer_deux_agences ------------------ *)

\* lines 118-168
CallComparer ==
    /\ res = Pending
    /\ \E out \in comparer_deux_agences(nom_a, df_a, nom_b, df_b) : res' = out
    /\ LET after == ArgsAfter(nom_a, df_a, nom_b, df_b)
       IN  df_a' = after[1] /\ df_b' = after[2]
    /\ UNCHANGED <<nom_a, nom_b, loaderVars, appVars>>

\* a row of a canonical table
InvRow(code, des, st, sp, ecart) ==
    ("Code article" :> code) @@ ("D&signation" :> des) @@ ("Stock th&orique" :> st)
    @@ ("Stock physique" :> sp) @@ ("Ecart" :> ecart)

Frame(rows) == [ok |-> TRUE, columns |-> required_logical_cols, rows |-> rows]

MaxRefRows == 3

MaxOtherRows == 2

\* rows of the reference table: a code met twice, discrepancies of equal
\* absolute value, a missing discrepancy, a code the other table has not
RefRowPool ==
    {InvRow("A", "a1", Num(10), Num(13), Num(3)),
     InvRow("A", "a2", Num(5), Num(2), Num(-3)),
     InvRow("B", "b1", Num(1), NaN, NaN),
     InvRow("C", "c1", Num(8), Num(3), Num(-5))}

\* rows of the other table: a code met twice, a missing discrepancy, a code
\* the reference table has not
OtherRowPool ==
    {InvRow("A", "x1", Num(0), Num(0), Num(0)),
     InvRow("A", "x2", Num(2), Num(4), Num(2)),
     InvRow("B", "y1", Num(7), Num(6), Num(-1)),
     InvRow("D", "z1", NaN, Num(1), NaN)}

\* the pairs of agency names of a call: two plain names, the same name twice,
\* and a name that makes "Ecart_<name>" the name of a result column
NamePairs ==
    {<<"A", "B">>, <<"A", "A">>, <<"des_2_agences", "B">>, <<"B", "des_2_agences">>}

InitCmp ==
    /\ \E pair \in NamePairs : nom_a = pair[1] /\ nom_b = pair[2]
    /\ df_a \in {Frame(rows) : rows \in InjSeqs(RefRowPool, MaxRefRows)}
    /\ df_b \in {Frame(rows) : rows \in InjSeqs(OtherRowPool, MaxOtherRows)}
    /\ res = Pending
    /\ LoaderIdle /\ AppIdle

\* every call of comparer_deux_agences on two tables of distinct rows of the pools
SpecCmp == InitCmp /\ [][CallComparer]_vars

(* ------------------------- the script's runs -------------------------- *)
(* Streamlit runs the script from the top at every click or change of a     *)
(* widget.  nb_agences and the widgets' values live in the session; the     *)
(* rest is rebuilt by each run.                                             *)

MaxAgences == 3

\* st.file_uploader returned None
None == [none |-> TRUE]

\* a file as an agency may upload it
File1 ==
    [readable |-> TRUE,
     columns |-> <<"Code article", "D&signation", "Stock th&orique",
                   "Stock physique", "Ecart">>,
     rows |-> << <<"A1", "Vis", "10", "13", "3">>,
                 <<"B2", "Clou", "5", "2", "-3">> >>]

\* a file with other spellings of the headers, one more column, and a row
\* without code
File2 ==
    [readable |-> TRUE,
     columns |-> <<"Emplacement", "CODE ARTICLE~", "D&signation article",
                   "Stock th&orique", "Stock physique", "ecart stock">>,
     rows |-> << <<"R1", "B2", "Clou", "4", "4", "0">>,
                 <<"R2", NoValue, "?", "1", "1", "0">>,
                 <<"R3", " A1", "Vis", "7", "7", "0,0">> >>]

\* a file without the discrepancy column
FileNoEcart ==
    [readable |-> TRUE,
     columns |-> <<"Code article", "D&signation", "Stock th&orique", "Stock physique">>,
     rows |-> << <<"A1", "Vis", "10", "13">> >>]

\* a file read_csv / read_excel cannot read
FileUnreadable == [readable |-> FALSE, columns |-> <<>>, rows |-> <<>>]

\* a name so long that "<name>_vs_<other>" is cut before <other>
LongName == "Agence_du_Nord_Tres_Longue_N1"

\* what the user may put in a slot: a name and a file
WidgetPool ==
    {[nom |-> "A", uploaded |-> File1],
     [nom |-> " B ", uploaded |-> File2],
     [nom |-> "A", uploaded |-> File2],
     [nom |-> "  ", uploaded |-> File1],
     [nom |-> "C", uploaded |-> None],
     [nom |-> "C", uploaded |-> FileNoEcart],
     [nom |-> "D", uploaded |-> FileUnreadable],
     [nom |-> LongName, uploaded |-> File1]}

RunOver == pc \in {"idle", "shown", "refused", "done", "crashed"}

\* a run starts (line 175), with the click that caused it; lines 26-27: the
\* "+ Ajouter une agence" button adds a slot
StartRun ==
    /\ RunOver
    /\ \E b \in {"add", "generate", "none"} :
          /\ button' = b
          /\ b = "add" => nb_agences < MaxAgences
          /\ nb_agences' = IF b = "add" THEN nb_agences + 1 ELSE nb_agences
    /\ agence_infos' = <<>>
    /\ errors' = <<>>
    /\ downloads' = <<>>
    /\ sheets' = <<>>
    /\ i_slot' = 0 /\ idx_ref' = 0 /\ idx_other' = 0
    /\ pc' = "slots"
    /\ UNCHANGED <<widgets, loaderVars, cmpVars>>

\* a variant of lines 195-202 where an error ends the loop over the slots
NextSlotStopAtError(slot, loaded) == IF loaded THEN slot + 1 ELSE nb_agences

\* lines 177, 195-202: the try / except is inside the loop's body, so the
\* loop goes on to the next slot whether the file loaded or not
NextSlot(slot, loaded) == slot + 1

\* lines 177-202, one turn of the loop.  A slot the session has no value for
\* yet gets a name and a file from WidgetPool
LoadSlot ==
    /\ pc = "slots"
    /\ i_slot < nb_agences
    /\ \E w \in (IF i_slot < Len(widgets) THEN {widgets[i_slot + 1]} ELSE WidgetPool) :
          /\ widgets' = IF i_slot < Len(widgets) THEN widgets ELSE Append(widgets, w)
          /\ IF w.uploaded # None /\ StrStrip(w.nom) # ""
             THEN LET out == charger_inventaire(w.uploaded)
                  IN  IF out.ok
                      THEN /\ agence_infos' = Append(agence_infos, <<StrStrip(w.nom), out>>)
                           /\ errors' = errors
                           /\ i_slot' = NextSlot(i_slot, TRUE)
                      ELSE /\ agence_infos' = agence_infos
                           /\ errors' = Append(errors, [agence |-> i_slot + 1, detail |-> out])
                           /\ i_slot' = NextSlot(i_slot, FALSE)
             ELSE /\ agence_infos' = agence_infos
                  /\ errors' = errors
                  /\ i_slot' = i_slot + 1
    /\ UNCHANGED <<nb_agences, button, pc, idx_ref, idx_other, sheets, downloads,
                   loaderVars, cmpVars>>

InsufficientAgencies == [agence |-> 0, detail |-> "InsufficientAgencies"]

\* a variant of line 207 that lets a single agency through
GenerationRefusedBelowOne(n) == n < 1

\* line 207
GenerationRefused(n) == n < 2

\* lines 206-210, after the loop over the slots
GenerateButton ==
    /\ pc = "slots"
    /\ i_slot >= nb_agences
    /\ IF button # "generate"
       THEN pc' = "shown" /\ errors' = errors
       ELSE IF GenerationRefused(Len(agence_infos))
       THEN pc' = "refused" /\ errors' = Append(errors, InsufficientAgencies)
       ELSE pc' = "generate" /\ errors' = errors
    /\ UNCHANGED <<nb_agences, widgets, agence_infos, button, i_slot, idx_ref, idx_other,
                   sheets, downloads, loaderVars, cmpVars>>

\* line 224
SheetName(nom_ref, nom_other) ==
    LET sheet_name == nom_ref \o "_vs_" \o nom_other
    IN  SubSeq(sheet_name, 1, Min(31, Len(sheet_name)))

\* cells written over a sheet: what the new cells do not cover stays
Overlay(old, new) ==
    [k \in 1..Max(Len(old), Len(new)) |-> IF k <= Len(new) THEN new[k] ELSE old[k]]

\* line 226, DataFrame.to_excel(writer, sheet_name=...): the writer adds a
\* sheet of that name, or writes over the one it has
WriteSheet(book, sheet_name, df) ==
    IF \E k \in 1..Len(book) : book[k].name = sheet_name
    THEN [k \in 1..Len(book) |->
            IF book[k].name = sheet_name
            THEN [name |-> sheet_name,
                  columns |-> Overlay(book[k].columns, df.columns),
                  rows |-> Overlay(book[k].rows, df.rows)]
            ELSE book[k]]
    ELSE Append(book, [name |-> sheet_name, columns |-> df.columns, rows |-> df.rows])

Generating == pc = "generate" /\ idx_ref < Len(agence_infos)

\* lines 216-218: the turn of the inner loop for the reference itself
SkipSelf ==
    /\ Generating
    /\ idx_other < Len(agence_infos)
    /\ idx_other = idx_ref
    /\ idx_other' = idx_other + 1
    /\ UNCHANGED <<nb_agences, widgets, agence_infos, errors, button, pc, i_slot, idx_ref,
                   sheets, downloads, loaderVars, cmpVars>>

\* lines 216-226: one turn of the inner loop for another agency.  An
\* exception of comparer_deux_agences is caught nowhere: it ends the run
ComparePair ==
    /\ Generating
    /\ idx_other < Len(agence_infos)
    /\ idx_other # idx_ref
    /\ LET nom_ref   == agence_infos[idx_ref + 1][1]
           df_ref    == agence_infos[idx_ref + 1][2]
           nom_other == agence_infos[idx_other + 1][1]
           df_other  == agence_infos[idx_other + 1][2]
           after     == ArgsAfter(nom_ref, df_ref, nom_other, df_other)
       IN  /\ \E df_comp \in comparer_deux_agences(nom_ref, df_ref, nom_other, df_other) :
                 IF df_comp.ok
                 THEN /\ sheets' = WriteSheet(sheets, SheetName(nom_ref, nom_other), df_comp)
                      /\ idx_other' = idx_other + 1
                      /\ pc' = pc
                 ELSE /\ sheets' = sheets
                      /\ idx_other' = idx_other
                      /\ pc' = "crashed"
           /\ agence_infos' =
                [k \in 1..Len(agence_infos) |->
                    IF k = idx_ref + 1 THEN <<nom_ref, after[1]>>
                    ELSE IF k = idx_other + 1 THEN <<nom_other, after[2]>>
                    ELSE agence_infos[k]]
    /\ UNCHANGED <<nb_agences, widgets, errors, button, i_slot, idx_ref, downloads,
                   loaderVars, cmpVars>>

\* lines 215, 228-235: the workbook is closed and its download button made
CloseWorkbook ==
    /\ Generating
    /\ idx_other = Len(agence_infos)
    /\ downloads' = Append(downloads,
          [file_name |-> "rapport_inventaire_" \o agence_infos[idx_ref + 1][1] \o ".xlsx",
           sheets |-> sheets])
    /\ sheets' = <<>>
    /\ idx_ref' = idx_ref + 1
    /\ idx_other' = 0
    /\ UNCHANGED <<nb_agences, widgets, agence_infos, errors, button, pc, i_slot,
                   loaderVars, cmpVars>>

\* lines 213, 237-240: the outer loop is over
GenerationDone ==
    /\ pc = "generate"
    /\ idx_ref = Len(agence_infos)
    /\ pc' = "done"
    /\ UNCHANGED <<nb_agences, widgets, agence_infos, errors, button, i_slot, idx_ref,
                   idx_other, sheets, downloads, loaderVars, cmpVars>>

Init == LoaderIdle /\ CmpIdle /\ AppIdle

Next ==
    \/ StartRun
    \/ LoadSlot
    \/ GenerateButton
    \/ SkipSelf
    \/ ComparePair
    \/ CloseWorkbook
    \/ GenerationDone

\* the runs of the script
Spec == Init /\ [][Next]_vars

(* --------------------- properties of the resolver --------------------- *)

Called == df_inv # Pending

\* the labels the loop of line 62 runs over
Cols == CleanColumns(uploaded_file.columns)

\* the positions of the headers that satisfy the test of field f
Satisfying(f) == {i \in 1..Len(Cols) : FieldMatches(f, ColClean(Cols[i]))}

First(S) == CHOOSE i \in S : \A j \in S : i <= j

Fields == {required_logical_cols[k] : k \in 1..5}

SchemaMismatch == ~df_inv.ok /\ df_inv.error = "ValueError"

\* C9 as stated: each field gets the first header, in column order, that
\* satisfies the field's test, and resolution fails (with the missing fields)
\* only when some field has no header satisfying its test.
C9_FirstSatisfyingHeader ==
    (Called /\ uploaded_file.readable) =>
        /\ \A f \in Fields :
              IF Satisfying(f) = {}
              THEN f \notin DOMAIN col_map
              ELSE f \in DOMAIN col_map /\ col_map[f] = Cols[First(Satisfying(f))]
        /\ SchemaMismatch <=> (\E f \in Fields : Satisfying(f) = {})

\* for one label, which of the five tests (in chain order) it satisfies
TestsPassed(col) ==
    LET col_clean == ColClean(col)
    IN  <<FieldMatches(required_logical_cols[1], col_clean),
          FieldMatches(required_logical_cols[2], col_clean),
          FieldMatches(required_logical_cols[3], col_clean),
          FieldMatches(required_logical_cols[4], col_clean),
          FieldMatches(required_logical_cols[5], col_clean)>>

RECURSIVE TestsTable(_, _)
\* TestsPassed of every label from position i on
TestsTable(cols, i) ==
    IF i > Len(cols) THEN <<>>
    ELSE <<TestsPassed(cols[i])>> \o TestsTable(cols, i + 1)

\* the position of the header given to the k-th field of the chain, 0 when it
\* gets none, from the positions given to the fields before it: the first
\* header that satisfies the field's test and that no field before it in the
\* chain takes (a field takes a header that satisfies its test when it has
\* none yet).  hit[i][g] says that the header at position i satisfies test g.
OwnedNext(k, prev, hit) ==
    LET free(i) == \A g \in 1..(k - 1) :
                      ~(hit[i][g] /\ (prev[g] = 0 \/ prev[g] >= i))
        cand == {i \in 1..Len(hit) : hit[i][k] /\ free(i)}
    IN  IF cand = {} THEN 0 ELSE First(cand)

RECURSIVE OwnedUpTo(_, _)
OwnedUpTo(k, hit) ==
    IF k = 0 THEN <<>>
    ELSE LET prev == OwnedUpTo(k - 1, hit) IN Append(prev, OwnedNext(k, prev, hit))

\* C9 (amended): a header goes to one field at most, the first field in the
\* order code article, designation, stock theorique, stock physique, ecart
\* whose test it satisfies and that has no header yet.  So each field gets the
\* first header, in column order, that satisfies its test and is not taken by
\* a field before it in that order; later headers change nothing for it; and
\* resolution fails, listing the missing fields in that order, exactly when
\* some field gets no header.
C9_FirstFreeHeader ==
    (Called /\ uploaded_file.readable) =>
        LET owned == OwnedUpTo(5, TestsTable(Cols, 1))
        IN  /\ \A k \in 1..5 :
                  LET f == required_logical_cols[k]
                  IN  IF owned[k] = 0
                      THEN f \notin DOMAIN col_map
                      ELSE f \in DOMAIN col_map /\ col_map[f] = Cols[owned[k]]
            /\ SchemaMismatch <=> (\E k \in 1..5 : owned[k] = 0)
            /\ SchemaMismatch =>
                  /\ df_inv.missing =
                       SelectSeq(required_logical_cols,
                                 LAMBDA f : \E k \in 1..5 :
                                    required_logical_cols[k] = f /\ owned[k] = 0)
                  /\ df_inv.found = Cols

\* a resolved file where a first header took "Stock physique" and a later
\* header that satisfies the same test was ignored
C9_Witness ==
    /\ Called /\ df_inv.ok
    /\ col_map["Stock physique"] = "Ecart stock physique"
    /\ \E i \in 1..Len(Cols) : Cols[i] = "Stock physique"
    /\ col_map["Ecart"] = "Ecart"

(* --------------- properties of the discrepancy header ---------------- *)

\* the header under test in SpecEcart
EcartHeader == uploaded_file.columns[5]

Recognised == "Ecart" \in DOMAIN col_map

\* the normal form C8 states: NBSP removed, trimmed, lower-cased, accent dropped
C8NormalForm(h) == StrReplace(StrLower(StrStrip(StrReplace(h, "~", ""))), "&", "e")

\* C8 as stated: a header is the discrepancy field exactly when its normal
\* form (NBSP removed, trimmed, lower-cased), accents and case aside, starts
\* with "ecart".
C8_AccentInsensitivePrefix ==
    Called => (Recognised <=> StrStartsWith(C8NormalForm(EcartHeader), "ecart"))

\* C8 (amended): a header is the discrepancy field exactly when, after its
\* leading spaces and no-break spaces, come the five letters e, c, a, r, t in
\* either case and without accent, with nothing between them: case is ignored,
\* accents are not, a no-break space inside the word breaks it, and "ecart" at
\* a later position does not count.
C8_CaseInsensitivePrefix ==
    Called =>
        LET h == EcartHeader
            solid == {i \in 1..Len(h) : ~IsSpace(CharAt(h, i))}
            p == First(solid)
        IN  Recognised <=>
                /\ solid # {}
                /\ Len(h) >= p + 4
                /\ CharAt(h, p) \in {"e", "E"}
                /\ CharAt(h, p + 1) \in {"c", "C"}
                /\ CharAt(h, p + 2) \in {"a", "A"}
                /\ CharAt(h, p + 3) \in {"r", "R"}
                /\ CharAt(h, p + 4) \in {"t", "T"}

\* an upper-case header with a leading no-break space and text after the
\* word is recognised, and the file loads
C8_Witness ==
    /\ Called /\ df_inv.ok
    /\ EcartHeader = "~ECART stock"
    /\ Recognised

(* ---------------------- properties of the loader ---------------------- *)

\* a raw row has a code: one that is there and is not made of spaces only
HasCode(cells) == cells[2] # NoValue /\ StrStrip(cells[2]) # ""

\* C7 as stated: of the N data rows of a file the K rows with a non-empty
\* item code come back, in their order, each with its code trimmed and not
\* empty; a row whose numbers are missing is kept like any other.
C7_RowsWithCodeKept ==
    (Called /\ uploaded_file.readable) =>
        LET kept == SelectSeq(uploaded_file.rows, HasCode)
        IN  /\ df_inv.ok
            /\ Len(df_inv.rows) = Len(kept)
            /\ \A k \in 1..Min(Len(df_inv.rows), Len(kept)) :
                  /\ df_inv.rows[k]["Code article"] = StrStrip(kept[k][2])
                  /\ df_inv.rows[k]["D&signation"] = kept[k][3]
            /\ \A k \in 1..Len(df_inv.rows) :
                  /\ df_inv.rows[k]["Code article"] # ""
                  /\ df_inv.rows[k]["Code article"] = StrStrip(df_inv.rows[k]["Code article"])

(* -------------------- properties of the comparator -------------------- *)

Compared == res # Pending

Returned == Compared /\ res.ok

Code(row) == row["Code article"]

\* what a result row takes from the reference row
RefPart(row) ==
    <<row["Code article"], row["D&signation"], row["Stock th&orique"], row["Stock physique"]>>

\* the pairs (reference row, other row) of equal item code
Matches == {m \in (1..Len(df_a.rows)) \X (1..Len(df_b.rows)) :
               Code(df_a.rows[m[1]]) = Code(df_b.rows[m[2]])}

AllCodes ==
    {Code(df_a.rows[k]) : k \in 1..Len(df_a.rows)}
    \cup {Code(df_b.rows[k]) : k \in 1..Len(df_b.rows)}
    \cup (IF Returned THEN {Code(res.rows[k]) : k \in 1..Len(res.rows)} ELSE {})

\* C4: when the call returns a table, it is the inner join on the item code:
\* for every code k the table has (rows of k in the reference) x (rows of k in
\* the other) rows, none for a code one table has not, and its rows carry the
\* description and the two stocks of the reference rows, each as many times
\* as the reference row has matches.
C4_InnerJoin ==
    Returned =>
        /\ \A k \in AllCodes :
              Cardinality({r \in 1..Len(res.rows) : Code(res.rows[r]) = k})
                = Cardinality({x \in 1..Len(df_a.rows) : Code(df_a.rows[x]) = k})
                  * Cardinality({y \in 1..Len(df_b.rows) : Code(df_b.rows[y]) = k})
        /\ \A t \in {RefPart(res.rows[r]) : r \in 1..Len(res.rows)}
                    \cup {RefPart(df_a.rows[x]) : x \in 1..Len(df_a.rows)} :
              Cardinality({r \in 1..Len(res.rows) : RefPart(res.rows[r]) = t})
                = Cardinality({m \in Matches : RefPart(df_a.rows[m[1]]) = t})

\* the reference has the code A twice and B once, the other table A and D:
\* the result has the two A rows and nothing for B and D
C4_Witness ==
    /\ Returned
    /\ Len(df_a.rows) = 3 /\ Len(df_b.rows) = 2
    /\ <<Code(df_a.rows[1]), Code(df_a.rows[2]), Code(df_a.rows[3])>> = <<"A", "A", "B">>
    /\ <<Code(df_b.rows[1]), Code(df_b.rows[2])>> = <<"A", "D">>
    /\ Len(res.rows) = 2
    /\ res.rows[1]["D&signation"] # res.rows[2]["D&signation"]

\* what C5 says of a result row made of the reference row x and the other row y
DerivedPart(ea, eb) == <<ea, eb, NumSub(eb, ea), NumAdd(ea, eb)>>

\* C5 as stated, for any two agency names: each result row carries the two
\* discrepancies as they were in the tables, Ecart_des_2_agences = other -
\* reference and Somme_ecarts = reference + other (NaN when either is NaN).
C5_DerivedColumns ==
    Returned =>
        LET got(r) == <<RefPart(res.rows[r]),
                        <<res.rows[r]["Ecart_" \o nom_a], res.rows[r]["Ecart_" \o nom_b],
                          res.rows[r]["Ecart_des_2_agences"], res.rows[r]["Somme_ecarts"]>> >>
            want(m) == <<RefPart(df_a.rows[m[1]]),
                         DerivedPart(df_a.rows[m[1]]["Ecart"], df_b.rows[m[2]]["Ecart"])>>
        IN  \A t \in {got(r) : r \in 1..Len(res.rows)} \cup {want(m) : m \in Matches} :
               Cardinality({r \in 1..Len(res.rows) : got(r) = t})
                 = Cardinality({m \in Matches : want(m) = t})

\* res before line 166
Unsorted == ResultBeforeSort(nom_a, df_a, nom_b, df_b).rows

\* in a stable sort by descending absolute value with the NaN last, the row
\* at position x of the join comes before the row at position y
StableBefore(u, x, y) ==
    LET kx == SortKey(u[x])
        ky == SortKey(u[y])
    IN  IF IsNaN(kx) THEN IsNaN(ky) /\ x < y
        ELSE \/ IsNaN(ky)
             \/ NumLess(ky, kx)
             \/ (~NumLess(kx, ky) /\ x < y)

StableSorted(u) ==
    [k \in 1..Len(u) |->
        u[CHOOSE x \in 1..Len(u) :
             Cardinality({y \in 1..Len(u) : StableBefore(u, y, x)}) = k - 1]]

\* C6 as stated: the rows come by descending absolute value of Somme_ecarts,
\* rows of equal absolute value in the order of the join, rows without
\* Somme_ecarts last.
C6_StableDescending == Returned => res.rows = StableSorted(Unsorted)

\* C6 (amended): the rows returned are the rows of the join, by descending
\* absolute value of Somme_ecarts; the rows without Somme_ecarts come after
\* all the others, in the order of the join; the order of two rows of equal
\* absolute value is not fixed (the sort is the default quicksort, not a
\* stable one).
C6_DescendingNaNLast ==
    Returned =>
        LET u == Unsorted
            noKey(row) == IsNaN(SortKey(row))
        IN  /\ Len(res.rows) = Len(u)
            /\ \A t \in {u[x] : x \in 1..Len(u)} :
                  Cardinality({r \in 1..Len(res.rows) : res.rows[r] = t})
                    = Cardinality({x \in 1..Len(u) : u[x] = t})
            /\ \A p, q \in 1..Len(res.rows) :
                  p < q =>
                     /\ noKey(res.rows[p]) => noKey(res.rows[q])
                     /\ (~noKey(res.rows[p]) /\ ~noKey(res.rows[q]))
                           => ~NumLess(SortKey(res.rows[p]), SortKey(res.rows[q]))
            /\ SelectSeq(res.rows, noKey) = SelectSeq(u, noKey)

\* three rows come back: two of equal absolute value and opposite sign, then
\* one without Somme_ecarts
C6_Witness ==
    /\ Returned /\ nom_a = "A" /\ nom_b = "B"
    /\ Len(res.rows) = 3
    /\ res.rows[1]["Somme_ecarts"] = Num(-3)
    /\ res.rows[2]["Somme_ecarts"] = Num(3)
    /\ IsNaN(res.rows[3]["Somme_ecarts"])

(* -------------------- properties of the script's runs ------------------ *)

\* the slot holds a name and a file (line 194)
Filled(w) == w.uploaded # None /\ StrStrip(w.nom) # ""

\* what charger_inventaire gives for the file of each filled slot of WidgetPool
LoaderOutcome ==
    [w \in {x \in WidgetPool : Filled(x)} |-> charger_inventaire(w.uploaded)]

Loads(w) == IF Filled(w) THEN LoaderOutcome[w].ok ELSE FALSE

Fails(w) == IF Filled(w) THEN ~LoaderOutcome[w].ok ELSE FALSE

\* the slots of the run, in upload order
Slots == SubSeq(widgets, 1, nb_agences)

\* what the slots with a name and a file that loads give, in upload order
ValidAgencies ==
    LET good == SelectSeq(Slots, Loads)
    IN  [k \in 1..Len(good) |->
            <<StrStrip(good[k].nom), LoaderOutcome[good[k]]>>]

\* the loop over the slots is just over
SlotsJustDone ==
    \/ pc \in {"shown", "refused"}
    \/ pc = "generate" /\ idx_ref = 0 /\ idx_other = 0

\* C3: when the loop over the slots is over, every slot was visited, the
\* comparison set is, in upload order, the agencies that have a name and a
\* file that loaded, and for every slot whose file failed to load an error
\* bearing the slot's number was shown.
C3_FailureIsolated ==
    SlotsJustDone =>
        /\ i_slot = nb_agences
        /\ Len(widgets) >= nb_agences
        /\ agence_infos = ValidAgencies
        /\ \A k \in 1..nb_agences :
              Fails(widgets[k]) <=>
                 \E e \in 1..Len(errors) :
                    /\ errors[e].agence = k
                    /\ errors[e].detail = LoaderOutcome[widgets[k]]

\* the first slot's file failed to load, and the two slots after it are in
\* the comparison set
C3_Witness ==
    /\ pc = "generate" /\ idx_ref = 0 /\ idx_other = 0
    /\ nb_agences = 3
    /\ Fails(widgets[1])
    /\ Len(agence_infos) = 2
    /\ \E e \in 1..Len(errors) : errors[e].agence = 1

\* C2: a click on the generate button with fewer than 2 valid agencies (a
\* name and a file that loads) ends the run with the InsufficientAgencies
\* error, no comparison made, no sheet written and no document produced; with
\* 2 or more the generation starts.
C2_Refused ==
    (pc \in {"refused", "generate", "done", "crashed"}) =>
        /\ Len(widgets) >= nb_agences
        /\ (pc = "refused") <=> (Len(SelectSeq(Slots, Loads)) < 2)
        /\ pc = "refused" =>
              /\ button = "generate"
              /\ downloads = <<>> /\ sheets = <<>>
              /\ idx_ref = 0 /\ idx_other = 0
              /\ errors # <<>> /\ errors[Len(errors)] = InsufficientAgencies
              /\ \A e \in 1..(Len(errors) - 1) : errors[e] # InsufficientAgencies

\* a run refused with exactly one valid agency
C2_Witness ==
    /\ pc = "refused"
    /\ Len(agence_infos) = 1
    /\ \E k \in 1..nb_agences : Fails(widgets[k])

\* the sheet names of the document of the reference at position r (1-based)
ExpectedSheetNames(r) ==
    LET others == SelectSeq([k \in 1..Len(agence_infos) |-> k], LAMBDA k : k # r)
    IN  [k \in 1..Len(others) |->
            LET full == agence_infos[r][1] \o "_vs_" \o agence_infos[others[k]][1]
            IN  SubSeq(full, 1, Min(31, Len(full)))]

\* C1 as stated: once the generation has begun with N >= 2 agencies it runs
\* to completion and makes N documents, the document of reference r with N-1
\* sheets named "<r>_vs_<other>" cut to 31 characters, in upload order.
C1_OneDocumentPerAgency ==
    (pc \in {"done", "crashed"}) =>
        /\ pc = "done"
        /\ Len(downloads) = Len(agence_infos)
        /\ \A r \in 1..Len(downloads) :
              /\ Len(downloads[r].sheets) = Len(agence_infos) - 1
              /\ [k \in 1..Len(downloads[r].sheets) |-> downloads[r].sheets[k].name]
                    = ExpectedSheetNames(r)

\* C10: no step of the generation changes a table of agence_infos, and the
\* sheet a comparison adds is comparer_deux_agences of the two tables as the
\* loader returned them, whatever was compared before.
C10_TablesUnchanged ==
    [][(pc = "generate") =>
          /\ agence_infos' = agence_infos
          /\ agence_infos = ValidAgencies
          /\ Len(sheets') = Len(sheets) + 1 =>
                LET added == sheets'[Len(sheets')]
                    ref   == ValidAgencies[idx_ref + 1]
                    other == ValidAgencies[idx_other + 1]
                IN  \E f \in comparer_deux_agences(ref[1], ref[2], other[1], other[2]) :
                       f.ok /\ f.rows = added.rows /\ f.columns = added.columns]_vars

\* the second document is being written after the first one took two
\* comparisons, and the tables are as loaded
C10_Witness ==
    /\ pc = "generate" /\ idx_ref = 1 /\ Len(sheets) = 1
    /\ Len(downloads) = 1 /\ Len(downloads[1].sheets) = 2
    /\ agence_infos = ValidAgencies

====
